---- MODULE Spec2Model ----
(***************************************************************************)
(* A model of the foodvoice menu page: the session state held by the Home  *)
(* component (current category, active filters, visible items,             *)
(* conversation history), the reconciliation of assistant actions          *)
(* (executeAIActions with its deferred merge), the chat endpoint's mapping *)
(* of a decoded payload to actions, and the direct user controls.          *)
(*                                                                         *)
(* JavaScript values are modelled as records [t, v, o]: t is the typeof    *)
(* tag, v the string form of a primitive (also its property-key form), o   *)
(* the own properties of an object (a function from key to value).         *)
(* State updates made in one synchronous run of a handler are batched by   *)
(* React into one commit, followed by the effects that depend on them; one *)
(* action of the model is one such commit.  The model starts when the menu *)
(* has been loaded (before that the page shows no control).  Speech        *)
(* synthesis, the audio level and the showTranscript flag are left out.    *)
(***************************************************************************)
EXTENDS Integers, Sequences, FiniteSets, TLC

VARIABLES
    currentCategory,      \* useState('all')
    activeFilters,        \* useState({vegetarian: false, ...}): key -> JS value
    filteredItems,        \* useState([]): result of the filter effect
    conversationHistory,  \* useState([]): sequence of {role, content}
    assistantMessage,     \* useState('')
    isThinking,           \* useState(false)
    inflight,             \* pending fetch('/api/chat') calls with their closures
    timers,               \* pending setTimeout callbacks of executeAIActions, FIFO
    events,               \* number of user-initiated events so far (the budget)
    voiceState,           \* useVoiceRecorder's state (audioLevel left out)
    micPending,           \* startRecording calls awaiting getUserMedia
    mediaRecorderRef,     \* mediaRecorderRef.current: a recorder id, 0 for null
    recorders,            \* the MediaRecorders created so far: id -> phase
    last,                 \* history variable: the event of the last step
    chat,                 \* the chat endpoint's request: the model's text and the answer
    transcribe            \* the transcribe endpoint's request: its progress and answer

voiceVars == <<voiceState, micPending, mediaRecorderRef, recorders>>

vars == <<currentCategory, activeFilters, filteredItems, conversationHistory,
          assistantMessage, isThinking, inflight, timers, events,
          voiceState, micPending, mediaRecorderRef, recorders, last, chat, transcribe>>

----------------------------------------------------------------------------
(* Bounds of the model. *)

\* The number of user-initiated events of a run: clicks on the filter,
\* category, 'Effacer', 'Voir tout le menu' and transcript-close buttons,
\* quick actions, and recordings started.
MaxEvents == 2

----------------------------------------------------------------------------
(* JavaScript values. *)

NoProps == <<>>

JV(type, str) == [t |-> type, v |-> str, o |-> NoProps]
Undefined == JV("undefined", "undefined")
Null == JV("object-null", "null")
JTrue == JV("boolean", "true")
JFalse == JV("boolean", "false")
JBool(b) == IF b THEN JTrue ELSE JFalse
JStr(s) == JV("string", s)
JNum(s) == JV("number", s)
JObj(props) == [t |-> "object", v |-> "[object Object]", o |-> props]

\* ToBoolean: undefined, null, false, 0 and '' are falsy, everything else truthy.
Truthy(x) ==
    /\ x.t # "undefined"
    /\ x.t # "object-null"
    /\ x # JFalse
    /\ x # JStr("")
    /\ x # JNum("0")

\* obj.key on a value: own property, else undefined.
Get(x, key) == IF key \in DOMAIN x.o THEN x.o[key] ELSE Undefined

\* {...a, ...b} on property maps.
Spread(a, b) ==
    [k \in (DOMAIN a) \cup (DOMAIN b) |-> IF k \in DOMAIN b THEN b[k] ELSE a[k]]

IsBoolean(x) == x.t = "boolean"
IsString(x) == x.t = "string"

----------------------------------------------------------------------------
(* The catalog (menuData), loaded once from /data/menu.json.  Two          *)
(* categories of two items each; the item fields are those the filter      *)
(* effect reads.                                                           *)

FilterKeys == {"vegetarian", "vegan", "halal", "noAllergens", "popular", "noCheese"}

MenuItem(id, veg, vgn, hal, pop, allergens, removable) ==
    [id |-> id, vegetarian |-> veg, vegan |-> vgn, halal |-> hal, popular |-> pop,
     allergens |-> allergens, cheeseRemovable |-> removable]

\* menuData.menu in key order: each entry is <<category key, items>>.
menuData ==
    << [key |-> "pizzas",
        items |-> << MenuItem(1, TRUE, FALSE, TRUE, TRUE, {"lait", "gluten"}, JTrue),
                     MenuItem(2, FALSE, FALSE, FALSE, FALSE, {"lait", "gluten"}, Undefined) >>],
       [key |-> "pates",
        items |-> << MenuItem(3, TRUE, TRUE, TRUE, FALSE, {}, Undefined),
                     MenuItem(4, FALSE, FALSE, FALSE, FALSE, {"lait", "oeufs"}, JFalse) >>] >>

MenuKeys == { menuData[i].key : i \in DOMAIN menuData }

\* Properties every object literal inherits from Object.prototype: the
\* function Object ("constructor") and the prototype object ("__proto__")
\* stand for the inherited functions and objects.
ObjectPrototypeKeys == {"constructor", "__proto__"}

RECURSIVE FlatFrom(_)
\* Object.values(menuData.menu).flat(), from entry i on.
FlatFrom(i) ==
    IF i > Len(menuData) THEN <<>> ELSE menuData[i].items \o FlatFrom(i + 1)

\* menuData.menu[key]: an own key yields its array, an inherited key yields
\* the inherited function or object, any other key yields undefined.
MenuLookup(key) ==
    IF key \in MenuKeys
    THEN [t |-> "array",
          items |-> (CHOOSE e \in { menuData[i] : i \in DOMAIN menuData } : e.key = key).items]
    ELSE IF key = "constructor" THEN [t |-> "function", items |-> <<>>]
    ELSE IF key \in ObjectPrototypeKeys THEN [t |-> "object", items |-> <<>>]
    ELSE [t |-> "undefined", items |-> <<>>]

\* Lines 85-90: the base list for a category.  menu[cat] || [] keeps a truthy
\* non-array value as it is.
BaseItems(cat) ==
    IF cat = JStr("all")
    THEN [t |-> "array", items |-> FlatFrom(1)]
    ELSE LET m == MenuLookup(cat.v)
         IN IF m.t = "undefined" THEN [t |-> "array", items |-> <<>>] ELSE m

IsVegetarian(item) == item.vegetarian
IsVegan(item) == item.vegan
\* Mutant: the halal flag keeps every item.
IsHalal_KeepsAll(item) == TRUE
IsHalal(item) == item.halal
IsPopular(item) == item.popular
HasNoAllergens(item) == item.allergens = {}
\* Mutant: cheeseRemovable is not looked at.
PassesNoCheese_IgnoresRemovable(item) == "lait" \notin item.allergens
PassesNoCheese(item) == ("lait" \notin item.allergens) \/ item.cheeseRemovable = JTrue

Ids(items) == [i \in DOMAIN items |-> items[i].id]

\* A value that is no array reached a place that needs one: a TypeError
\* during the effect or the render, which unmounts the page.
Crashed == [array |-> FALSE, items |-> <<>>]

\* Lines 80-123: the filter effect, as the next value of filteredItems (the
\* ids of the items listed).  When the base value is no array, items.filter
\* throws if some flag is truthy; otherwise setFilteredItems receives the
\* value: the function Object is taken as an updater and returns the previous
\* list, an object is stored and filteredItems.map throws in the render.
FilterEffect(prev, cat, filters) ==
    LET base == BaseItems(cat)
        f(k) == IF k \in DOMAIN filters THEN filters[k] ELSE Undefined
        \* if (activeFilters.k) items = items.filter(pred)
        FilterStep(items, flag, Pred(_)) ==
            IF Truthy(flag) THEN SelectSeq(items, Pred) ELSE items
        i1 == FilterStep(base.items, f("vegetarian"), IsVegetarian)
        i2 == FilterStep(i1, f("vegan"), IsVegan)
        i3 == FilterStep(i2, f("halal"), IsHalal)
        i4 == FilterStep(i3, f("popular"), IsPopular)
        i5 == FilterStep(i4, f("noAllergens"), HasNoAllergens)
        i6 == FilterStep(i5, f("noCheese"), PassesNoCheese)
    IN IF base.t = "array" THEN [array |-> TRUE, items |-> Ids(i6)]
       ELSE IF \E k \in FilterKeys : Truthy(f(k)) THEN Crashed
       ELSE IF base.t = "function" THEN prev
       ELSE Crashed

\* The page is rendered while the visible list is an array.  Once it is
\* unmounted its buttons are gone and state setters have no effect, so no
\* action of the model is enabled.
Mounted == filteredItems.array

----------------------------------------------------------------------------
(* The chat endpoint: what the handler answers for one outcome of the      *)
(* language-model call.                                                    *)

\* An object literal from a set of <<key, value>> pairs.
Obj(pairs) ==
    JObj([k \in { p[1] : p \in pairs } |-> (CHOOSE p \in pairs : p[1] = k)[2]])

JArr(str) == [t |-> "object", v |-> str, o |-> NoProps]

\* JSON.stringify drops the properties whose value is undefined.
Stringified(props) ==
    [k \in { j \in DOMAIN props : props[j] # Undefined } |-> props[k]]

\* Lines 249-277: the actions object built from the decoded payload.
BuildActions(parsedResponse) ==
    LET pa == Get(parsedResponse, "actions")
        copy(from, to) ==
            IF Truthy(pa) /\ Truthy(Get(pa, from)) THEN {<<to, Get(pa, from)>>} ELSE {}
    IN Obj(copy("category", "filterCategory") \cup copy("filters", "setFilters")
           \cup copy("customFilters", "customFilters")
           \cup copy("recommendedItems", "recommendedItems"))

\* The body sent with status 200 (lines 279-282).
SuccessBody(response, actions) ==
    JObj(Stringified(Obj({ <<"response", response>>,
                           <<"actions", IF DOMAIN actions.o # {} THEN actions ELSE Undefined>> }).o))

\* The body of an error answer; the client never reads it.
ErrorBody == Obj({ <<"error", JStr("error")>> })

\* Lines 176-290 of the handler, from the call to the language model on.
\* outcome.kind is what the call produced: "fetchThrows" (the request threw),
\* "notOk" (a non-OK status), "emptyContent" (no message content), "undecodable"
\* (content on which JSON.parse throws) or "decoded" (content decoded to
\* outcome.parsed); outcome.raw is the content.
ChatHandler(outcome) ==
    CASE outcome.kind = "fetchThrows" -> [status |-> 500, body |-> ErrorBody]
      [] outcome.kind = "notOk" -> [status |-> 429, body |-> ErrorBody]
      [] outcome.kind = "emptyContent" -> [status |-> 500, body |-> ErrorBody]
      [] outcome.kind = "undecodable" ->
            [status |-> 200, body |-> SuccessBody(JStr(outcome.raw), JObj(NoProps))]
      [] outcome.kind = "decoded" ->
            IF outcome.parsed = Null
            THEN [status |-> 500, body |-> ErrorBody]   \* null.actions throws
            ELSE [status |-> 200,
                  body |-> SuccessBody(Get(outcome.parsed, "response"),
                                       BuildActions(outcome.parsed))]

\* response.ok
Ok(reply) == reply.status >= 200 /\ reply.status <= 299

----------------------------------------------------------------------------
(* The outcomes of the language-model call the model draws from.           *)

Payload(response, actions) ==
    Obj((IF response = Undefined THEN {} ELSE {<<"response", response>>})
        \cup (IF actions = Undefined THEN {} ELSE {<<"actions", actions>>}))

Decoded(parsed) == [kind |-> "decoded", parsed |-> parsed, raw |-> "json"]
Failure(kind) == [kind |-> kind, parsed |-> Undefined, raw |-> "text"]

ActionPayloads ==
    { Obj({ <<"category", JStr("pizzas")>> }),
      Obj({ <<"category", JStr("pates")>>, <<"filters", Obj({})>> }),
      Obj({ <<"filters", Obj({ <<"popular", JTrue>> })>> }),
      Obj({ <<"filters", Obj({ <<"vegetarian", JTrue>> })>> }),
      Obj({ <<"category", JStr("pizzas")>>,
            <<"filters", Obj({ <<"vegan", JTrue>>, <<"popular", JFalse>> })>> }),
      Obj({ <<"category", JStr("sushi")>> }),
      Obj({ <<"category", JStr("constructor")>> }),
      Obj({ <<"category", JStr("__proto__")>> }),
      Obj({ <<"category", JNum("5")>> }),
      Obj({ <<"filters", Obj({ <<"vegan", JStr("oui")>>, <<"glutenFree", JTrue>> })>> }),
      Obj({ <<"customFilters", Obj({ <<"withCheese", JTrue>> })>> }),
      Obj({ <<"customFilters", Obj({ <<"withMeat", JTrue>>, <<"spicy", JTrue>> })>> }),
      Obj({ <<"recommendedItems", JArr("1,3")>> }),
      Obj({ <<"showItems", JArr("2")>> }),
      Obj({ <<"category", JStr("")>>, <<"filters", Null>> }),
      Obj({ <<"category", JStr("pates")>>, <<"filters", Obj({ <<"halal", JTrue>> })>>,
            <<"customFilters", Obj({ <<"withCheese", JTrue>> })>> }) }

Outcomes ==
    { Failure("fetchThrows"), Failure("notOk"), Failure("emptyContent"),
      Failure("undecodable"), Decoded(Null), Decoded(JNum("7")),
      Decoded(Payload(JStr("ok"), Undefined)),
      Decoded(Payload(Undefined, Obj({ <<"category", JStr("pates")>> }))) }
    \cup { Decoded(Payload(JStr("ok"), a)) : a \in ActionPayloads }

----------------------------------------------------------------------------
(* The chat endpoint on the text of the language model (lines 204-247).    *)
(* A text is a sequence of lexemes, each standing for its characters: the  *)
(* code fence, the word json, the double quote, a blank, a line break, the *)
(* braces, the colon, the comma, and words without any of these.           *)

\* The longest brace-free noise put before and after the core of a text.
MaxNoise == 2

\* The code fence (three backquotes).
Fence == "<fence>"
Quote == "\""

IsSpace(c) == c \in {" ", "\n"}

RECURSIVE TrimStart(_)
TrimStart(s) == IF s # <<>> /\ IsSpace(Head(s)) THEN TrimStart(Tail(s)) ELSE s

RECURSIVE TrimEnd(_)
TrimEnd(s) ==
    IF s # <<>> /\ IsSpace(s[Len(s)]) THEN TrimEnd(SubSeq(s, 1, Len(s) - 1)) ELSE s

\* String.prototype.trim
Trim(s) == TrimEnd(TrimStart(s))

StartsWith(s, p) == Len(s) >= Len(p) /\ SubSeq(s, 1, Len(p)) = p

\* s.replace(/^p\s*/, '') for a literal prefix p
ReplacePrefix(s, p) ==
    IF StartsWith(s, p) THEN TrimStart(SubSeq(s, Len(p) + 1, Len(s))) ELSE s

\* s.replace(/\s*<fence>$/, ''): the leftmost match starts at the blanks before
\* a final fence.
ReplaceTrailingFence(s) ==
    IF s # <<>> /\ s[Len(s)] = Fence THEN TrimEnd(SubSeq(s, 1, Len(s) - 1)) ELSE s

\* s.replace(/^\s*<fence>\s*/, '')
ReplaceLeadingFence(s) ==
    LET r == TrimStart(s)
    IN IF StartsWith(r, <<Fence>>) THEN TrimStart(Tail(r)) ELSE s

\* Lines 216-223: trim and the five replacements, in the order of the code.
cleanedResponse(assistantResponse) ==
    LET s0 == Trim(assistantResponse)
        s1 == ReplacePrefix(s0, <<Fence, "json">>)
        s2 == ReplaceTrailingFence(s1)
        s3 == ReplacePrefix(s2, <<"json">>)
        s4 == ReplacePrefix(s3, <<Quote, "json">>)
    IN ReplaceLeadingFence(s4)

\* String.prototype.indexOf and lastIndexOf, counted from 0, -1 for none.
indexOf(s, c) ==
    IF \E i \in DOMAIN s : s[i] = c
    THEN (CHOOSE i \in DOMAIN s : s[i] = c /\ \A j \in 1..(i - 1) : s[j] # c) - 1
    ELSE -1

lastIndexOf(s, c) ==
    IF \E i \in DOMAIN s : s[i] = c
    THEN (CHOOSE i \in DOMAIN s : s[i] = c /\ \A j \in (i + 1)..Len(s) : s[j] # c) - 1
    ELSE -1

\* Mutant: the cleaned text is decoded as it is.
BraceSpan_NoSlice(cleaned) == cleaned

\* Mutant: the span ends at the first closing brace.
BraceSpan_FirstClose(cleaned) ==
    LET firstBrace == indexOf(cleaned, "{")
        lastBrace == indexOf(cleaned, "}")
    IN IF firstBrace # -1 /\ lastBrace # -1 /\ firstBrace < lastBrace
       THEN SubSeq(cleaned, firstBrace + 1, lastBrace + 1)
       ELSE cleaned

\* Lines 226-231: the text handed to JSON.parse.
BraceSpan(cleaned) ==
    LET firstBrace == indexOf(cleaned, "{")
        lastBrace == lastIndexOf(cleaned, "}")
    IN IF firstBrace # -1 /\ lastBrace # -1 /\ firstBrace < lastBrace
       THEN SubSeq(cleaned, firstBrace + 1, lastBrace + 1)
       ELSE cleaned

RECURSIVE Join(_)
Join(s) == IF s = <<>> THEN "" ELSE Head(s) \o Join(Tail(s))

\* JSON.parse (line 235) on objects, strings and the literals below; arrays
\* are left out.  A result is [ok, val, next]: next is the place after the
\* value read.
JsonLiterals == {"null", "true", "false", "5"}

JsonLiteral(c) ==
    CASE c = "null" -> Null
      [] c = "true" -> JTrue
      [] c = "false" -> JFalse
      [] OTHER -> JNum(c)

SyntaxError == [ok |-> FALSE, val |-> Undefined, next |-> 0]

Parsed(val, next) == [ok |-> TRUE, val |-> val, next |-> next]

RECURSIVE SkipSpace(_, _)
SkipSpace(s, i) == IF i <= Len(s) /\ IsSpace(s[i]) THEN SkipSpace(s, i + 1) ELSE i

\* The string whose opening quote is at i - 1: up to the next quote, with no
\* line break inside.
ParseString(s, i) ==
    IF \E j \in i..Len(s) : s[j] = Quote
    THEN LET j == CHOOSE j \in i..Len(s) : s[j] = Quote /\ \A k \in i..(j - 1) : s[k] # Quote
         IN IF \E k \in i..(j - 1) : s[k] = "\n"
            THEN SyntaxError
            ELSE Parsed(JStr(Join(SubSeq(s, i, j - 1))), j + 1)
    ELSE SyntaxError

RECURSIVE ParseValue(_, _)
RECURSIVE ParseMembers(_, _, _)

ParseValue(s, i) ==
    LET j == SkipSpace(s, i)
    IN IF j > Len(s) THEN SyntaxError
       ELSE IF s[j] = "{"
       THEN LET k == SkipSpace(s, j + 1)
            IN IF k <= Len(s) /\ s[k] = "}"
               THEN Parsed(JObj(NoProps), k + 1)
               ELSE ParseMembers(s, k, NoProps)
       ELSE IF s[j] = Quote THEN ParseString(s, j + 1)
       ELSE IF s[j] \in JsonLiterals THEN Parsed(JsonLiteral(s[j]), j + 1)
       ELSE SyntaxError

\* The members of an object from the key at i on; a repeated key keeps its
\* last value.
ParseMembers(s, i, props) ==
    IF i > Len(s) \/ s[i] # Quote THEN SyntaxError
    ELSE LET key == ParseString(s, i + 1)
         IN IF ~key.ok THEN SyntaxError
            ELSE LET c == SkipSpace(s, key.next)
                 IN IF c > Len(s) \/ s[c] # ":" THEN SyntaxError
                    ELSE LET val == ParseValue(s, c + 1)
                         IN IF ~val.ok THEN SyntaxError
                            ELSE LET d == SkipSpace(s, val.next)
                                     more == [k \in (DOMAIN props) \cup {key.val.v} |->
                                                 IF k = key.val.v THEN val.val ELSE props[k]]
                                 IN IF d > Len(s) THEN SyntaxError
                                    ELSE IF s[d] = "}" THEN Parsed(JObj(more), d + 1)
                                    ELSE IF s[d] = ","
                                    THEN ParseMembers(s, SkipSpace(s, d + 1), more)
                                    ELSE SyntaxError

JSONparse(s) ==
    LET r == ParseValue(s, 1)
    IN IF r.ok /\ SkipSpace(s, r.next) > Len(s) THEN r ELSE SyntaxError

\* Mutant: a text that cannot be decoded is an internal error.
ParseOutcome_Throws(assistantResponse) ==
    IF assistantResponse = <<>>
    THEN [kind |-> "emptyContent", parsed |-> Undefined, raw |-> ""]
    ELSE LET r == JSONparse(BraceSpan(cleanedResponse(assistantResponse)))
         IN IF r.ok
            THEN [kind |-> "decoded", parsed |-> r.val, raw |-> Join(assistantResponse)]
            ELSE [kind |-> "fetchThrows", parsed |-> Undefined,
                  raw |-> Join(assistantResponse)]

\* Lines 205-247: what the text of the model comes to.
ParseOutcome(assistantResponse) ==
    IF assistantResponse = <<>>
    THEN [kind |-> "emptyContent", parsed |-> Undefined, raw |-> ""]
    ELSE LET r == JSONparse(BraceSpan(cleanedResponse(assistantResponse)))
         IN IF r.ok
            THEN [kind |-> "decoded", parsed |-> r.val, raw |-> Join(assistantResponse)]
            ELSE [kind |-> "undecodable", parsed |-> Undefined,
                  raw |-> Join(assistantResponse)]

\* The texts the model draws from: a core between two stretches of noise.
\* Before the core, the lexemes the replacements look for and a word of prose;
\* after it, those that matter at the end of a text.
LeadingLexemes == {Fence, "json", Quote, " ", "Voici"}
TrailingLexemes == {Fence, " ", "Voila"}

RECURSIVE SeqsUpTo(_, _)
SeqsUpTo(S, n) ==
    IF n = 0 THEN {<<>>}
    ELSE LET shorter == SeqsUpTo(S, n - 1)
         IN shorter \cup { Append(s, c) : s \in shorter, c \in S }

LeadingNoise == SeqsUpTo(LeadingLexemes, MaxNoise)
TrailingNoise == SeqsUpTo(TrailingLexemes, MaxNoise)

Str(w) == <<Quote, w, Quote>>

PizzasPayload ==
    <<"{">> \o Str("response") \o <<":">> \o Str("ok") \o <<",">> \o Str("actions")
    \o <<":", "{">> \o Str("category") \o <<":">> \o Str("pizzas") \o <<"}", "}">>

HiPayload == <<"{">> \o Str("response") \o <<":", " ">> \o Str("hi") \o <<"\n", "}">>

VeganPayload ==
    <<"{">> \o Str("response") \o <<":">> \o Str("ok") \o <<",">> \o Str("actions")
    \o <<":", "{">> \o Str("filters") \o <<":", "{">> \o Str("vegan") \o <<":", "true">>
    \o <<"}", "}", "}">>

ValidPayloads == {PizzasPayload, HiPayload, VeganPayload}

NoResponsePayload ==
    <<"{">> \o Str("actions") \o <<":", "{">> \o Str("category") \o <<":">>
    \o Str("pizzas") \o <<"}", "}">>

NumberResponsePayload ==
    <<"{">> \o Str("response") \o <<":", "5", ",">> \o Str("actions") \o <<":", "{">>
    \o Str("category") \o <<":">> \o Str("pizzas") \o <<"}", "}">>

Unbalanced == <<"{">> \o Str("response") \o <<":", " ", Quote, "oops">>

TwoPayloads ==
    <<"{">> \o Str("response") \o <<":">> \o Str("a") \o <<"}", " ", "{">>
    \o Str("response") \o <<":">> \o Str("b") \o <<"}">>

Cores ==
    ValidPayloads
    \cup { NoResponsePayload, NumberResponsePayload, Unbalanced, TwoPayloads,
           <<"{", "}">>, <<"}", "{">>, <<"null">>, <<"5">>, Str("ok"), Str("{"),
           <<"Bonjour">>, <<>> }

RawTexts ==
    { pre \o core \o post : pre \in LeadingNoise, core \in Cores, post \in TrailingNoise }

\* The transcribe endpoint before any request.  phase is where the handler
\* is; stored and tempFile tell whether an audio file was stored by the upload
\* parser and whether it is still on disk; cause is what went on, answer is
\* the response sent.
NoUpload ==
    [phase |-> "idle", language |-> "", stored |-> FALSE, tempFile |-> FALSE,
     cause |-> "none", answer |-> [status |-> 0, error |-> "", text |-> "", language |-> ""]]

\* The endpoint before any request.
NoRequest ==
    [phase |-> "idle", assistantResponse |-> <<>>, cleaned |-> <<>>, parseInput |-> <<>>,
     outcome |-> [kind |-> "none", parsed |-> Undefined, raw |-> ""],
     answer |-> [status |-> 0, body |-> JObj(NoProps)]]

----------------------------------------------------------------------------
(* The Home component.                                                     *)

\* The literal passed to setActiveFilters at lines 250-257, 275-282, 417-424.
AllFalse == [k \in FilterKeys |-> JFalse]

\* actions.customFilters.withCheese is read only when customFilters is truthy.
WithCheese(actions) ==
    Truthy(Get(actions, "customFilters"))
    /\ Truthy(Get(Get(actions, "customFilters"), "withCheese"))

\* Mutant: the withCheese step does not touch the category.
CategoryAfter_NoWithCheese(category, actions) ==
    IF Truthy(Get(actions, "filterCategory")) THEN Get(actions, "filterCategory")
    ELSE category

\* Lines 239-243 and 285: the category after the synchronous part.
\* Mutant: an action with filters and no category shows the whole menu.
CategoryAfter_AllOnFilters(category, actions) ==
    IF WithCheese(actions) THEN JStr("all")
    ELSE IF Truthy(Get(actions, "filterCategory")) THEN Get(actions, "filterCategory")
    ELSE IF Truthy(Get(actions, "setFilters")) THEN JStr("all")
    ELSE category

CategoryAfter(category, actions) ==
    IF WithCheese(actions) THEN JStr("all")
    ELSE IF Truthy(Get(actions, "filterCategory")) THEN Get(actions, "filterCategory")
    ELSE category

\* Mutant: the new filters are merged over the previous ones, without a reset.
FiltersAfter_NoReset(filters, actions) ==
    IF WithCheese(actions) THEN AllFalse ELSE filters

\* Mutant: an empty filters object does not count as filters.
FiltersAfter_NonEmptyOnly(filters, actions) ==
    IF (Truthy(Get(actions, "setFilters")) /\ DOMAIN Get(actions, "setFilters").o # {})
       \/ WithCheese(actions)
    THEN AllFalse ELSE filters

\* Mutant: any custom filter resets the filters, not only withCheese.
FiltersAfter_AnyCustom(filters, actions) ==
    IF Truthy(Get(actions, "setFilters")) \/ Truthy(Get(actions, "customFilters"))
    THEN AllFalse ELSE filters

\* Lines 246-257 and 273-282: the filters after the synchronous part.
FiltersAfter(filters, actions) ==
    IF Truthy(Get(actions, "setFilters")) \/ WithCheese(actions) THEN AllFalse ELSE filters

\* Line 246: the deferred merge is scheduled when setFilters is truthy.
SchedulesMerge(actions) == Truthy(Get(actions, "setFilters"))

\* Lines 261-264: prev => ({...prev, ...actions.setFilters}).
MergeFilters(prev, actions) == Spread(prev, Get(actions, "setFilters").o)

\* Lines 304-307: prev => ({...prev, [filterKey]: !prev[filterKey]}).
\* Mutant: a toggle sets the flag and clears the others.
ToggledFilters_Exclusive(prev, filterKey) ==
    [k \in DOMAIN prev |-> IF k = filterKey THEN JBool(~Truthy(prev[k])) ELSE JFalse]

ToggledFilters(prev, filterKey) ==
    Spread(prev, [k \in {filterKey} |-> JBool(~Truthy(prev[k]))])

\* Line 321: Object.values(activeFilters).filter(Boolean).length.
getActiveFiltersCount == Cardinality({ k \in DOMAIN activeFilters : Truthy(activeFilters[k]) })

\* The message of the quick-action buttons (lines 679-691); the three buttons
\* differ in this constant only, and one of them is drawn.
QuickMessages == {"Je veux des pizzas"}


FallbackMessage == JStr("Desole, j'ai un petit probleme technique.")

\* The history variable: the kind of the last step; for "actions" and
\* "merge" the actions object applied; for "merge" whether it ran right after
\* the call of executeAIActions that scheduled it; and, for "actions" and for
\* such a merge, the category and filters before executeAIActions was called.
Snapshot(category, filters) == [category |-> category, filters |-> filters]

NoSnapshot == Snapshot(Undefined, NoProps)

Event(ev, actions, undisturbed, before) ==
    [ev |-> ev, actions |-> actions, undisturbed |-> undisturbed, before |-> before]

Step(ev) == Event(ev, Undefined, FALSE, NoSnapshot)

\* One commit of category and filters, followed by the filter effect.
Commit(category, filters) ==
    /\ currentCategory' = category
    /\ activeFilters' = filters
    /\ filteredItems' = FilterEffect(filteredItems, category, filters)

Init ==
    /\ currentCategory = JStr("all")
    /\ activeFilters = AllFalse
    /\ filteredItems = FilterEffect([array |-> TRUE, items |-> <<>>], JStr("all"), AllFalse)
    /\ conversationHistory = <<>>
    /\ assistantMessage = JStr("")
    /\ isThinking = FALSE
    /\ inflight = {}
    /\ timers = <<>>
    /\ events = 0
    /\ voiceState = [isRecording |-> FALSE, isProcessing |-> FALSE,
                     error |-> Null, transcript |-> Null]
    /\ micPending = 0
    /\ mediaRecorderRef = 0
    /\ recorders = <<>>
    /\ last = Step("init")
    /\ chat = NoRequest
    /\ transcribe = NoUpload

\* Lines 303-308 and 405: a click on a filter button.
toggleFilter(filterKey) ==
    /\ Mounted
    /\ events < MaxEvents
    /\ events' = events + 1
    /\ Commit(currentCategory, ToggledFilters(activeFilters, filterKey))
    /\ UNCHANGED timers
    /\ last' = Step("click")
    /\ UNCHANGED <<conversationHistory, assistantMessage, isThinking, inflight>>
    /\ UNCHANGED voiceVars
    /\ UNCHANGED <<chat, transcribe>>

\* Lines 364 and 376: a click on a category button.
SelectCategory(key) ==
    /\ Mounted
    /\ events < MaxEvents
    /\ events' = events + 1
    /\ Commit(JStr(key), activeFilters)
    /\ UNCHANGED timers
    /\ last' = Step("click")
    /\ UNCHANGED <<conversationHistory, assistantMessage, isThinking, inflight>>
    /\ UNCHANGED voiceVars
    /\ UNCHANGED <<chat, transcribe>>

\* Lines 415-428: the 'Effacer' button, shown while some filter is active.
ClearFilters ==
    /\ Mounted
    /\ getActiveFiltersCount > 0
    /\ events < MaxEvents
    /\ events' = events + 1
    /\ Commit(currentCategory, AllFalse)
    /\ UNCHANGED timers
    /\ last' = Step("click")
    /\ UNCHANGED <<conversationHistory, assistantMessage, isThinking, inflight>>
    /\ UNCHANGED voiceVars
    /\ UNCHANGED <<chat, transcribe>>

\* Lines 506-530: the 'Voir tout le menu' button, shown while nothing is visible.
ShowWholeMenu ==
    /\ Mounted
    /\ filteredItems.items = <<>>
    /\ events < MaxEvents
    /\ events' = events + 1
    /\ Commit(JStr("all"), AllFalse)
    /\ UNCHANGED timers
    /\ last' = Step("click")
    /\ UNCHANGED <<conversationHistory, assistantMessage, isThinking, inflight>>
    /\ UNCHANGED voiceVars
    /\ UNCHANGED <<chat, transcribe>>

\* Lines 186-200: the call of processUserInputWithAI up to its await; the
\* closure keeps the conversationHistory of the render it was created in.
\* id tells the calls apart.
processUserInputWithAI(id, userMessage) ==
    /\ isThinking' = TRUE
    /\ inflight' = inflight \cup
           {[id |-> id, message |-> userMessage, history |-> conversationHistory]}
    /\ UNCHANGED timers
    /\ last' = Step("call")

\* Lines 676-696: a quick-action button, shown while nothing else is going on.
QuickAction(userMessage) ==
    /\ Mounted
    /\ ~voiceState.isRecording /\ ~voiceState.isProcessing /\ ~isThinking
    /\ events < MaxEvents
    /\ events' = events + 1
    /\ processUserInputWithAI(<<"quick", events + 1>>, userMessage)
    /\ UNCHANGED <<currentCategory, activeFilters, filteredItems, conversationHistory,
                   assistantMessage>>
    /\ UNCHANGED voiceVars
    /\ UNCHANGED <<chat, transcribe>>

\* Lines 236-301: the synchronous part of executeAIActions.
executeAIActions(actions) ==
    /\ Commit(CategoryAfter(currentCategory, actions), FiltersAfter(activeFilters, actions))
    /\ timers' = IF SchedulesMerge(actions) THEN Append(timers, actions) ELSE timers

\* Lines 202-223 and 230-232: the request resolved with an OK answer.
ReplyOk(req, data) ==
    /\ conversationHistory' = req.history \o
           << [role |-> "user", content |-> JStr(req.message)],
              [role |-> "assistant", content |-> Get(data, "response")] >>
    /\ assistantMessage' = Get(data, "response")
    /\ IF Truthy(Get(data, "actions"))
       THEN /\ executeAIActions(Get(data, "actions"))
            /\ last' = Event("actions", Get(data, "actions"), FALSE,
                             Snapshot(currentCategory, activeFilters))
       ELSE /\ UNCHANGED timers
            /\ last' = Step("noActions")
            /\ UNCHANGED <<currentCategory, activeFilters, filteredItems>>

\* Mutant: a failed turn also clears the filters.
ReplyFailed_Resets ==
    /\ assistantMessage' = FallbackMessage
    /\ Commit(currentCategory, AllFalse)
    /\ UNCHANGED timers
    /\ last' = Step("failed")
    /\ UNCHANGED conversationHistory

\* Lines 202-204 and 225-232: the request failed or was answered with a
\* non-OK status.
ReplyFailed ==
    /\ assistantMessage' = FallbackMessage
    /\ UNCHANGED timers
    /\ last' = Step("failed")
    /\ UNCHANGED <<currentCategory, activeFilters, filteredItems, conversationHistory>>

\* The continuation of processUserInputWithAI after its await.
ChatResponse(req, outcome) ==
    /\ Mounted
    /\ req \in inflight
    /\ inflight' = inflight \ {req}
    /\ isThinking' = FALSE
    /\ LET reply == ChatHandler(outcome)
       IN IF Ok(reply) THEN ReplyOk(req, reply.body) ELSE ReplyFailed
    /\ UNCHANGED events
    /\ UNCHANGED voiceVars
    /\ UNCHANGED <<chat, transcribe>>

\* Lines 260-265: the oldest pending setTimeout callback runs.
DeferredMerge ==
    /\ Mounted
    /\ timers # <<>>
    /\ Commit(currentCategory, MergeFilters(activeFilters, Head(timers)))
    /\ timers' = Tail(timers)
    /\ last' = LET undisturbed == /\ last.ev = "actions"
                                   /\ last.actions = Head(timers)
                                   /\ Len(timers) = 1
               IN Event("merge", Head(timers), undisturbed,
                        IF undisturbed THEN last.before ELSE NoSnapshot)
    /\ UNCHANGED <<conversationHistory, assistantMessage, isThinking, inflight, events>>
    /\ UNCHANGED voiceVars
    /\ UNCHANGED <<chat, transcribe>>

----------------------------------------------------------------------------
(* The voice recorder hook and the voice button.                           *)

WelcomeMessage == JStr("Bonjour, je suis Fred votre serveur digital !")

Transcripts == {"Sans fromage"}

pageVars == <<currentCategory, activeFilters, filteredItems, conversationHistory,
              isThinking, inflight>>

\* Lines 145-157, else branch, and lines 58-69 of the hook: a click on the
\* voice button while not recording runs startRecording up to its await.
\* Each recording started is one event of the budget.
VoiceStart ==
    /\ Mounted
    /\ ~voiceState.isProcessing /\ ~voiceState.isRecording
    /\ events < MaxEvents
    /\ events' = events + 1
    /\ assistantMessage' = IF Truthy(assistantMessage) THEN assistantMessage ELSE WelcomeMessage
    /\ voiceState' = [voiceState EXCEPT !.error = Null, !.transcript = Null]
    /\ micPending' = micPending + 1
    /\ UNCHANGED timers
    /\ last' = Step("voice")
    /\ UNCHANGED <<pageVars, mediaRecorderRef, recorders>>
    /\ UNCHANGED <<chat, transcribe>>

\* Lines 71-127 of the hook: getUserMedia resolved; a recorder is created,
\* stored in the ref and started.
MicGranted ==
    /\ Mounted
    /\ micPending > 0
    /\ micPending' = micPending - 1
    /\ recorders' = Append(recorders, "recording")
    /\ mediaRecorderRef' = Len(recorders) + 1
    /\ voiceState' = [voiceState EXCEPT !.isRecording = TRUE]
    /\ UNCHANGED timers
    /\ last' = Step("voice")
    /\ UNCHANGED <<pageVars, assistantMessage, events>>
    /\ UNCHANGED <<chat, transcribe>>

\* Lines 129-136 of the hook: getUserMedia rejected.
MicDenied ==
    /\ Mounted
    /\ micPending > 0
    /\ micPending' = micPending - 1
    /\ voiceState' = [voiceState EXCEPT !.error = JStr("Impossible d'acceder au microphone"),
                                          !.isRecording = FALSE]
    /\ UNCHANGED timers
    /\ last' = Step("voice")
    /\ UNCHANGED <<pageVars, assistantMessage, events, mediaRecorderRef, recorders>>
    /\ UNCHANGED <<chat, transcribe>>

\* Lines 145-147 and lines 140-144 of the hook: a click on the voice button
\* while recording stops the recorder in the ref.  (stop() on a recorder that
\* is no longer recording throws and changes nothing.)
VoiceStop ==
    /\ Mounted
    /\ ~voiceState.isProcessing /\ voiceState.isRecording
    /\ mediaRecorderRef # 0
    /\ recorders[mediaRecorderRef] = "recording"
    /\ recorders' = [recorders EXCEPT ![mediaRecorderRef] = "stopping"]
    /\ UNCHANGED timers
    /\ last' = Step("voice")
    /\ UNCHANGED <<pageVars, assistantMessage, events, voiceState, micPending, mediaRecorderRef>>
    /\ UNCHANGED <<chat, transcribe>>

\* Lines 93-120 of the hook: the recorder's onstop handler up to the await
\* inside transcribeAudio.
OnStop(r) ==
    /\ Mounted
    /\ recorders[r] = "stopping"
    /\ recorders' = [recorders EXCEPT ![r] = "transcribing"]
    /\ voiceState' = [voiceState EXCEPT !.isRecording = FALSE, !.isProcessing = TRUE]
    /\ UNCHANGED timers
    /\ last' = Step("voice")
    /\ UNCHANGED <<pageVars, assistantMessage, events, micPending, mediaRecorderRef>>
    /\ UNCHANGED <<chat, transcribe>>

\* Lines 161-167 of the hook, then the transcript effect of the page (lines
\* 176-183): the transcription arrived; a transcript that differs from the
\* one shown starts a turn.
TranscribeOk(r, text) ==
    /\ Mounted
    /\ recorders[r] = "transcribing"
    /\ recorders' = [recorders EXCEPT ![r] = "done"]
    /\ voiceState' = [voiceState EXCEPT !.transcript = JStr(text), !.isProcessing = FALSE]
    /\ IF voiceState.transcript # JStr(text)
       THEN processUserInputWithAI(<<"voice", r>>, text)
       ELSE /\ UNCHANGED timers
            /\ last' = Step("transcript")
            /\ UNCHANGED <<isThinking, inflight>>
    /\ UNCHANGED <<currentCategory, activeFilters, filteredItems, conversationHistory,
                   assistantMessage, events, micPending, mediaRecorderRef>>
    /\ UNCHANGED <<chat, transcribe>>

\* Mutant: a failed transcription leaves the processing flag on.
TranscribeFailed_KeepsProcessing(r) ==
    /\ Mounted
    /\ recorders[r] = "transcribing"
    /\ recorders' = [recorders EXCEPT ![r] = "done"]
    /\ voiceState' = [voiceState EXCEPT !.error = JStr("Erreur lors de la transcription audio")]
    /\ UNCHANGED timers
    /\ last' = Step("transcribeFailed")
    /\ UNCHANGED <<pageVars, assistantMessage, events, micPending, mediaRecorderRef>>
    /\ UNCHANGED <<chat, transcribe>>

\* Lines 157-159 and 169-176 of the hook: the transcription request failed
\* or was answered with a non-OK status (which includes 'no text detected').
TranscribeFailed(r) ==
    /\ Mounted
    /\ recorders[r] = "transcribing"
    /\ recorders' = [recorders EXCEPT ![r] = "done"]
    /\ voiceState' = [voiceState EXCEPT !.error = JStr("Erreur lors de la transcription audio"),
                                          !.isProcessing = FALSE]
    /\ UNCHANGED timers
    /\ last' = Step("transcribeFailed")
    /\ UNCHANGED <<pageVars, assistantMessage, events, micPending, mediaRecorderRef>>
    /\ UNCHANGED <<chat, transcribe>>

\* Lines 464-476 and lines 180-182 of the hook: the close button of the
\* transcript bubble, shown while a transcript is.
clearTranscript ==
    /\ Mounted
    /\ Truthy(voiceState.transcript)
    /\ events < MaxEvents
    /\ events' = events + 1
    /\ voiceState' = [voiceState EXCEPT !.transcript = Null, !.error = Null]
    /\ UNCHANGED timers
    /\ last' = Step("voice")
    /\ UNCHANGED <<pageVars, assistantMessage, micPending, mediaRecorderRef, recorders>>
    /\ UNCHANGED <<chat, transcribe>>

Next ==
    \/ \E k \in FilterKeys : toggleFilter(k)
    \/ \E key \in MenuKeys \cup {"all"} : SelectCategory(key)
    \/ ClearFilters
    \/ ShowWholeMenu
    \/ \E m \in QuickMessages : QuickAction(m)
    \/ \E req \in inflight, outcome \in Outcomes : ChatResponse(req, outcome)
    \/ DeferredMerge
    \/ VoiceStart
    \/ MicGranted
    \/ MicDenied
    \/ VoiceStop
    \/ \E r \in DOMAIN recorders : OnStop(r)
    \/ \E r \in DOMAIN recorders, text \in Transcripts : TranscribeOk(r, text)
    \/ \E r \in DOMAIN recorders : TranscribeFailed(r)
    \/ clearTranscript

Spec == Init /\ [][Next]_vars

\* The request to /api/transcribe of a recorder resolves or rejects.
TranscriptionSettles ==
    \E r \in DOMAIN recorders :
        \/ \E text \in Transcripts : TranscribeOk(r, text)
        \/ TranscribeFailed(r)

\* The page when every transcription request is eventually answered.
LiveSpec == Init /\ [][Next]_vars /\ WF_vars(TranscriptionSettles)

----------------------------------------------------------------------------
(* The chat endpoint alone: one request whose language-model call returned *)
(* the text assistantResponse.                                             *)

sessionVars == <<currentCategory, activeFilters, filteredItems, conversationHistory,
                 assistantMessage, isThinking, inflight, timers, events,
                 voiceState, micPending, mediaRecorderRef, recorders, last>>

\* Lines 202-282 of the handler.
ChatRequest(assistantResponse) ==
    /\ chat.phase = "idle"
    /\ LET cleaned == cleanedResponse(assistantResponse)
           outcome == ParseOutcome(assistantResponse)
       IN chat' = [phase |-> "answered",
                   assistantResponse |-> assistantResponse,
                   cleaned |-> cleaned,
                   parseInput |-> BraceSpan(cleaned),
                   outcome |-> outcome,
                   answer |-> ChatHandler(outcome)]
    /\ UNCHANGED sessionVars
    /\ UNCHANGED transcribe

\* One request is followed to its answer.
ChatNext ==
    /\ chat.phase = "idle"
    /\ \E assistantResponse \in RawTexts : ChatRequest(assistantResponse)

ChatSpec == Init /\ [][ChatNext]_vars

----------------------------------------------------------------------------
(* The filter effect alone: category and filters have just been committed  *)
(* and the effect runs on them.                                            *)

\* The categories a session can hold: 'all', the catalog's keys, and the
\* keys an action of the assistant can bring.
Categories == MenuKeys \cup {"all", "sushi"} \cup ObjectPrototypeKeys

FilterSets == [FilterKeys -> {JTrue, JFalse}]

FilterInit ==
    /\ currentCategory \in { JStr(c) : c \in Categories }
    /\ activeFilters \in FilterSets
    /\ filteredItems = FilterEffect([array |-> TRUE, items |-> <<>>], JStr("all"), AllFalse)
    /\ conversationHistory = <<>>
    /\ assistantMessage = JStr("")
    /\ isThinking = FALSE
    /\ inflight = {}
    /\ timers = <<>>
    /\ events = 0
    /\ voiceState = [isRecording |-> FALSE, isProcessing |-> FALSE,
                     error |-> Null, transcript |-> Null]
    /\ micPending = 0
    /\ mediaRecorderRef = 0
    /\ recorders = <<>>
    /\ last = Step("init")
    /\ chat = NoRequest
    /\ transcribe = NoUpload

\* Lines 80-123: the effect that follows the commit.
RunFilterEffect ==
    /\ last.ev = "init"
    /\ filteredItems' = FilterEffect(filteredItems, currentCategory, activeFilters)
    /\ last' = Step("effect")
    /\ UNCHANGED <<currentCategory, activeFilters, conversationHistory, assistantMessage,
                   isThinking, inflight, timers, events, chat, transcribe>>
    /\ UNCHANGED voiceVars

FilterNext == RunFilterEffect

FilterSpec == FilterInit /\ [][FilterNext]_vars

----------------------------------------------------------------------------
(* The transcribe endpoint (pages/api/transcribe.ts) for the recording the *)
(* hook is processing, and the hook's continuation on its answer.          *)

\* The words an error message is searched for in the catch block, and any
\* other message.
ErrorMessages == {"ENOENT", "fetch", "other"}

Answer(status, error) == [status |-> status, error |-> error, text |-> "", language |-> ""]

\* Lines 141-163: the answer of the catch block for a thrown error.
CatchAnswer(message) ==
    IF message = "ENOENT" THEN Answer(500, "Erreur de fichier temporaire")
    ELSE IF message = "fetch" THEN Answer(503, "Service temporairement indisponible")
    ELSE Answer(500, "Erreur interne du serveur")

\* The first language of the accept-language header: one Whisper is told,
\* one it is not told, or none.
BrowserLanguages == {"fr", "nl", ""}

\* The outcomes of form.parse (line 64): it throws, it stores no file under
\* the field audio, or it stores the audio file in /tmp.
UploadOutcomes ==
    { [kind |-> "throws", message |-> m] : m \in ErrorMessages }
    \cup { [kind |-> "noAudio", message |-> ""], [kind |-> "stored", message |-> ""] }

\* The text field of a transcription: absent, or a sequence of lexemes.
WhisperTexts ==
    { [present |-> FALSE, lexemes |-> <<>>] }
    \cup { [present |-> TRUE, lexemes |-> t] :
             t \in { <<>>, <<" ">>, <<"\n", " ">>, <<"Sans fromage">>,
                     <<" ", "Sans fromage", "\n">> } }

NoText == [present |-> FALSE, lexemes |-> <<>>]

\* The outcomes of the request to the transcription service (lines 96-122):
\* fetch throws, the service answers with a non-OK status, its body is no
\* JSON, or it answers with a transcription.
WhisperOutcomes ==
    { [kind |-> "throws", message |-> m, status |-> 0, text |-> NoText, language |-> ""] :
        m \in ErrorMessages }
    \cup { [kind |-> "notOk", message |-> "", status |-> st, text |-> NoText, language |-> ""] :
             st \in {401, 429} }
    \cup { [kind |-> "badJson", message |-> m, status |-> 200, text |-> NoText, language |-> ""] :
             m \in ErrorMessages }
    \cup { [kind |-> "ok", message |-> "", status |-> 200, text |-> t, language |-> l] :
             t \in WhisperTexts, l \in {"", "fr"} }

\* Lines 42-55: the request arrives.
TranscribeReceive(method, hasKey, browserLang) ==
    /\ transcribe.phase = "idle"
    /\ transcribe' =
          IF method # "POST"
          THEN [transcribe EXCEPT !.phase = "responded", !.cause = "method",
                                  !.answer = Answer(405, "Methode non autorisee")]
          ELSE IF ~hasKey
          THEN [transcribe EXCEPT !.phase = "responded", !.cause = "config",
                                  !.answer = Answer(500, "Configuration serveur manquante")]
          ELSE [transcribe EXCEPT !.phase = "parsing", !.language = browserLang]
    /\ UNCHANGED <<sessionVars, chat>>

\* Lines 57-73: form.parse settled.
UploadParsed(outcome) ==
    /\ transcribe.phase = "parsing"
    /\ transcribe' =
          IF outcome.kind = "throws"
          THEN [transcribe EXCEPT !.phase = "responded", !.cause = "upload",
                                  !.answer = CatchAnswer(outcome.message)]
          ELSE IF outcome.kind = "noAudio"
          THEN [transcribe EXCEPT !.phase = "responded", !.cause = "noAudio",
                                  !.answer = Answer(400, "Aucun fichier audio fourni")]
          ELSE [transcribe EXCEPT !.phase = "calling", !.stored = TRUE, !.tempFile = TRUE]
    /\ UNCHANGED <<sessionVars, chat>>

\* Lines 96-139 and the catch block: the request to the transcription service
\* settled.  When fetch throws, control goes to the catch block and the
\* unlink of lines 105-110 is not reached; otherwise the file is deleted
\* unless unlinkSync throws.
WhisperAnswered(outcome, unlinkOk) ==
    /\ transcribe.phase = "calling"
    /\ transcribe' =
          IF outcome.kind = "throws"
          THEN [transcribe EXCEPT !.phase = "responded", !.cause = "transport",
                                  !.answer = CatchAnswer(outcome.message)]
          ELSE IF outcome.kind = "notOk"
          THEN [transcribe EXCEPT !.phase = "responded", !.cause = "serviceError",
                                  !.tempFile = ~unlinkOk,
                                  !.answer = Answer(outcome.status, "Erreur lors de la transcription")]
          ELSE IF outcome.kind = "badJson"
          THEN [transcribe EXCEPT !.phase = "responded", !.cause = "badBody",
                                  !.tempFile = ~unlinkOk,
                                  !.answer = CatchAnswer(outcome.message)]
          ELSE IF ~outcome.text.present \/ outcome.text.lexemes = <<>>
                  \/ Trim(outcome.text.lexemes) = <<>>
          THEN [transcribe EXCEPT !.phase = "responded", !.cause = "noSpeech",
                                  !.tempFile = ~unlinkOk,
                                  !.answer = Answer(400, "Aucun texte detecte")]
          ELSE [transcribe EXCEPT !.phase = "responded", !.cause = "transcribed",
                                  !.tempFile = ~unlinkOk,
                                  !.answer = [status |-> 200, error |-> "",
                                              text |-> Join(Trim(outcome.text.lexemes)),
                                              language |-> IF outcome.language # ""
                                                           THEN outcome.language
                                                           ELSE transcribe.language]]
    /\ UNCHANGED <<sessionVars, chat>>

\* Lines 152-176 of the hook: transcribeAudio after its await, on the answer
\* of the endpoint.
TranscriptionAnswered ==
    /\ transcribe.phase = "responded"
    /\ IF Ok(transcribe.answer)
       THEN TranscribeOk(1, transcribe.answer.text)
       ELSE TranscribeFailed(1)

\* The hook is processing its first recording: the state of the page after
\* one click to start, the microphone granted, one click to stop and the
\* recorder's onstop.
TranscribeInit ==
    /\ currentCategory = JStr("all")
    /\ activeFilters = AllFalse
    /\ filteredItems = FilterEffect([array |-> TRUE, items |-> <<>>], JStr("all"), AllFalse)
    /\ conversationHistory = <<>>
    /\ assistantMessage = WelcomeMessage
    /\ isThinking = FALSE
    /\ inflight = {}
    /\ timers = <<>>
    /\ events = 1
    /\ voiceState = [isRecording |-> FALSE, isProcessing |-> TRUE,
                     error |-> Null, transcript |-> Null]
    /\ micPending = 0
    /\ mediaRecorderRef = 1
    /\ recorders = <<"transcribing">>
    /\ last = Step("voice")
    /\ chat = NoRequest
    /\ transcribe = NoUpload

TranscribeNext ==
    \/ \E method \in {"POST", "GET"}, hasKey \in BOOLEAN, browserLang \in BrowserLanguages :
           TranscribeReceive(method, hasKey, browserLang)
    \/ \E outcome \in UploadOutcomes : UploadParsed(outcome)
    \/ \E outcome \in WhisperOutcomes, unlinkOk \in BOOLEAN : WhisperAnswered(outcome, unlinkOk)
    \/ TranscriptionAnswered

TranscribeSpec == TranscribeInit /\ [][TranscribeNext]_vars

----------------------------------------------------------------------------
(* Properties.                                                             *)

SetFiltersOf(actions) == Get(actions, "setFilters")

\* The value reset-then-merge gives flag k: the action's value when the key is
\* present in its filters, false otherwise.
ExpectedFlag(actions, k) ==
    IF k \in DOMAIN SetFiltersOf(actions).o THEN SetFiltersOf(actions).o[k] ELSE JFalse

\* C1: once an action that carries filters is fully applied (its deferred
\* merge ran right after executeAIActions, nothing in between), each of the
\* six flags has the action's value if the action gives one and false
\* otherwise, whatever the filters were before.
C1_ResetThenMerge ==
    (last.ev = "merge" /\ last.undisturbed)
        => \A k \in FilterKeys : activeFilters[k] = ExpectedFlag(last.actions, k)

\* C1 witness: {filters: {popular: true}} fully applied over a session whose
\* vegan flag was true.
C1_Witness ==
    /\ last.ev = "merge" /\ last.undisturbed
    /\ SetFiltersOf(last.actions) = Obj({ <<"popular", JTrue>> })
    /\ last.before.filters["vegan"] = JTrue
    /\ activeFilters["popular"] = JTrue
    /\ activeFilters["vegan"] = JFalse

\* C2: under every interleaving, right after the deferred merge of an action
\* no flag is true that the action did not set: the merge spread the action's
\* filters over an all-false FilterSet.
C2_MergeOverAllFalse ==
    last.ev = "merge"
        => \A k \in DOMAIN activeFilters :
               Truthy(activeFilters[k]) => Truthy(Get(SetFiltersOf(last.actions), k))

\* C3: an action is applied atomically: in no state is a part of an action
\* still to be applied, that is, no pending deferred merge would change the
\* filters.
C3_AtomicAction ==
    \A i \in DOMAIN timers : MergeFilters(activeFilters, timers[i]) = activeFilters

CategoryWithEmptyFilters(actions) ==
    /\ Truthy(Get(actions, "filterCategory"))
    /\ SetFiltersOf(actions) = Obj({})
    /\ ~WithCheese(actions)

\* C4: an action with a category and an empty filters object sets the
\* category and leaves the six flags false, right after executeAIActions (which
\* schedules the merge: {} counts as filters) and after the merge; the chat
\* handler maps the empty filters object to setFilters.
C4_CategoryWithEmptyFilters ==
    /\ Get(BuildActions(Payload(JStr("ok"),
               Obj({ <<"category", JStr("pates")>>, <<"filters", Obj({})>> }))),
           "setFilters") = Obj({})
    /\ (last.ev = "actions" /\ CategoryWithEmptyFilters(last.actions))
           => /\ currentCategory = Get(last.actions, "filterCategory")
              /\ \A k \in FilterKeys : activeFilters[k] = JFalse
              /\ timers # <<>>
              /\ timers[Len(timers)] = last.actions
    /\ (last.ev = "merge" /\ last.undisturbed /\ CategoryWithEmptyFilters(last.actions))
           => /\ currentCategory = Get(last.actions, "filterCategory")
              /\ \A k \in FilterKeys : activeFilters[k] = JFalse

\* C4 witness: {category: 'pates', filters: {}} fully applied over a session
\* that had an active filter and another category.
C4_Witness ==
    /\ last.ev = "merge" /\ last.undisturbed
    /\ CategoryWithEmptyFilters(last.actions)
    /\ last.before.category # JStr("pates")
    /\ \E k \in FilterKeys : Truthy(last.before.filters[k])
    /\ currentCategory = JStr("pates")

\* C5: an action's category is set verbatim, and when it is neither 'all' nor
\* a catalog key the visible item list is empty (and the page still there).
C5_UnknownCategoryEmpty ==
    (last.ev = "actions" /\ Truthy(Get(last.actions, "filterCategory"))
        /\ ~WithCheese(last.actions))
        => /\ currentCategory = Get(last.actions, "filterCategory")
           /\ (currentCategory.v \notin MenuKeys \cup {"all"}
                  => filteredItems = [array |-> TRUE, items |-> <<>>])

\* C6 as stated: the withCheese step forces the category to 'all' and leaves
\* every filter flag as it was before.
C6_WithCheeseKeepsFilters ==
    (last.ev = "actions" /\ WithCheese(last.actions))
        => /\ currentCategory = JStr("all")
           /\ activeFilters = last.before.filters

\* C6 amended: the withCheese step forces the category to 'all' and resets
\* every filter flag to false.
C6_WithCheeseResetsFilters ==
    (last.ev = "actions" /\ WithCheese(last.actions))
        => /\ currentCategory = JStr("all")
           /\ activeFilters = AllFalse

\* C6 witness: a withCheese action applied to a session with an active filter.
C6_Witness ==
    /\ last.ev = "actions" /\ WithCheese(last.actions)
    /\ \E k \in FilterKeys : Truthy(last.before.filters[k])
    /\ activeFilters = AllFalse

\* An action that carries neither a category, nor filters, nor withCheese.
OnlyAdvisory(actions) ==
    /\ ~Truthy(Get(actions, "filterCategory"))
    /\ ~Truthy(SetFiltersOf(actions))
    /\ ~WithCheese(actions)

\* C7: a step that applies an action carrying only other custom filters or
\* recommended items changes neither the category, nor a filter flag, nor the
\* visible item list.
C7_AdvisoryOnlyFrame ==
    [][(last'.ev = "actions" /\ OnlyAdvisory(last'.actions))
          => UNCHANGED <<currentCategory, activeFilters, filteredItems>>]_vars

\* C7 witness: such an action was applied to a session with an active filter.
C7_Witness ==
    /\ last.ev = "actions" /\ OnlyAdvisory(last.actions)
    /\ Truthy(Get(Get(last.actions, "customFilters"), "withMeat"))
    /\ \E k \in FilterKeys : Truthy(activeFilters[k])

\* C8: the active FilterSet always has exactly the six keys, each a boolean.
C8_FilterSetTotal ==
    /\ DOMAIN activeFilters = FilterKeys
    /\ \A k \in DOMAIN activeFilters : IsBoolean(activeFilters[k])

\* C9: the current category is always a string.
C9_CategoryIsString == IsString(currentCategory)

\* The steps of a turn that produces no action: the request failed, the answer
\* carried no actions, and the steps of the recorder, a failed transcription
\* among them.
NoActionEvents == {"failed", "noActions", "voice", "transcribeFailed"}

\* C10: a step of a turn that produces no action leaves the category and
\* every filter flag unchanged.
C10_NoActionNoChange ==
    [][last'.ev \in NoActionEvents
          => UNCHANGED <<currentCategory, activeFilters>>]_vars

\* C10 witness: a request failed in a session with an active filter.
C10_Witness ==
    /\ last.ev = "failed"
    /\ \E k \in FilterKeys : Truthy(activeFilters[k])

----------------------------------------------------------------------------
(* Properties of the chat endpoint on the text of the model (ChatSpec).    *)

Answered == chat.phase = "answered"

ReplyText == Get(chat.answer.body, "response")

NoAction == "actions" \notin DOMAIN chat.answer.body.o

\* The answer of the fallback path: success, the whole original text, no action.
FallbackAnswer ==
    /\ chat.answer.status = 200
    /\ ReplyText = JStr(Join(chat.assistantResponse))
    /\ NoAction

Undecodable == chat.assistantResponse # <<>> /\ ~JSONparse(chat.parseInput).ok

\* C11: when the cleaned text cannot be decoded as JSON, the handler answers
\* with success, the reply text is the entire original text and there is no
\* action.
C11_UndecodableFallsBack == (Answered /\ Undecodable) => FallbackAnswer

\* C11 witness: a text with an opening brace and no closing one, behind a fence
\* that the cleaning removes, has been answered on the fallback path.
C11_Witness ==
    /\ Answered
    /\ Undecodable
    /\ chat.assistantResponse = <<Fence, "json">> \o Unbalanced
    /\ chat.cleaned = Unbalanced
    /\ FallbackAnswer

\* The decoded value has no response field, or one that is not a string.
MalformedResponse ==
    /\ chat.assistantResponse # <<>>
    /\ JSONparse(chat.parseInput).ok
    /\ ~IsString(Get(JSONparse(chat.parseInput).val, "response"))
    /\ JSONparse(chat.parseInput).val.t = "object"

\* C12: a decoded payload with a missing or non-string response field is
\* answered on the fallback path: the original text, no action.
C12_MalformedResponseFallsBack == (Answered /\ MalformedResponse) => FallbackAnswer

\* The span of a text from its first opening brace to its last closing brace.
Opens(s) == { i \in DOMAIN s : s[i] = "{" }
Closes(s) == { i \in DOMAIN s : s[i] = "}" }
Least(S) == CHOOSE i \in S : \A j \in S : i <= j
Greatest(S) == CHOOSE i \in S : \A j \in S : i >= j
HasSpan(s) == Opens(s) # {} /\ Closes(s) # {} /\ Least(Opens(s)) < Greatest(Closes(s))
Span(s) == SubSeq(s, Least(Opens(s)), Greatest(Closes(s)))

\* The answer expected for a valid payload.
ExpectedBody(payload) ==
    CASE payload = PizzasPayload ->
            [response |-> JStr("ok"),
             actions |-> JObj([filterCategory |-> JStr("pizzas")])]
      [] payload = HiPayload -> [response |-> JStr("hi")]
      [] payload = VeganPayload ->
            [response |-> JStr("ok"),
             actions |-> JObj([setFilters |-> JObj([vegan |-> JTrue])])]

\* The text is one valid payload between two stretches of brace-free noise.
PayloadInNoise ==
    /\ HasSpan(chat.assistantResponse)
    /\ Span(chat.assistantResponse) \in ValidPayloads

\* C13: a valid payload surrounded by brace-free noise (fences with or without
\* the json tag, a bare json, prose, blanks) is answered with the payload's
\* response and the payload's actions, and with no action when the payload has
\* none.
C13_PayloadThroughNoise ==
    (Answered /\ PayloadInNoise) =>
        /\ chat.answer.status = 200
        /\ chat.answer.body.o = ExpectedBody(Span(chat.assistantResponse))

\* C13 witness: the payload with category pizzas between prose has been answered.
C13_Witness ==
    /\ Answered
    /\ chat.assistantResponse = <<"Voici", " ">> \o PizzasPayload \o <<" ", "Voila">>
    /\ Get(Get(chat.answer.body, "actions"), "filterCategory") = JStr("pizzas")

\* C14: the text handed to the decoder is the span of the cleaned text from its
\* first opening to its last closing brace when there is one, and the whole
\* cleaned text otherwise.
C14_DecoderInputIsSpan ==
    Answered =>
        chat.parseInput = IF HasSpan(chat.cleaned) THEN Span(chat.cleaned) ELSE chat.cleaned

\* C14 witness: a nested payload between prose was handed to the decoder whole.
C14_Witness ==
    /\ Answered
    /\ chat.cleaned = <<"Voici">> \o PizzasPayload \o <<"Voila">>
    /\ chat.parseInput = PizzasPayload

\* C15: every non-empty text of the model is answered with success and a reply
\* that is a string.
C15_AlwaysPlainTextReply ==
    (Answered /\ chat.assistantResponse # <<>>) =>
        (chat.answer.status = 200 /\ IsString(ReplyText))

----------------------------------------------------------------------------
(* Properties of the filter effect (FilterSpec).                           *)

EffectRan == last.ev = "effect"

\* The ids of a category's items, read off the catalog: pizzas 1 and 2,
\* pates 3 and 4.
ExpectedBaseIds(cat) ==
    CASE cat = JStr("all") -> <<1, 2, 3, 4>>
      [] cat = JStr("pizzas") -> <<1, 2>>
      [] cat = JStr("pates") -> <<3, 4>>
      [] OTHER -> <<>>

\* C16: with every flag false the visible list is, for 'all', every item of
\* the catalog once in catalog order; for a catalog key, that category's
\* items; for any other key, empty, with no error.
C16_BaseListOfCategory ==
    (EffectRan /\ activeFilters = AllFalse)
        => filteredItems = [array |-> TRUE, items |-> ExpectedBaseIds(currentCategory)]

\* The items of a category, from the catalog entries.
CatalogItems(cat) ==
    CASE cat = JStr("all") -> menuData[1].items \o menuData[2].items
      [] cat = JStr("pizzas") -> menuData[1].items
      [] cat = JStr("pates") -> menuData[2].items
      [] OTHER -> <<>>

\* What a flag asks of an item.
Satisfies(k, item) ==
    CASE k = "vegetarian" -> item.vegetarian
      [] k = "vegan" -> item.vegan
      [] k = "halal" -> item.halal
      [] k = "popular" -> item.popular
      [] k = "noAllergens" -> item.allergens = {}
      [] k = "noCheese" -> ("lait" \notin item.allergens) \/ item.cheeseRemovable = JTrue

SatisfiesEveryTrueFlag(item) ==
    \A k \in FilterKeys : activeFilters[k] = JTrue => Satisfies(k, item)

\* The category is 'all', a catalog key, or a key no object has.
PlainCategory == currentCategory.v \notin ObjectPrototypeKeys

\* C17: the visible list is the category's base sequence restricted to the
\* items that satisfy the predicate of every true flag, in base order; the
\* restriction names no order of the flags.
C17_FiltersAreConjunction ==
    (EffectRan /\ PlainCategory)
        => /\ filteredItems.array
           /\ filteredItems.items =
                  Ids(SelectSeq(CatalogItems(currentCategory), SatisfiesEveryTrueFlag))

\* C17 witness: vegetarian, halal and noAllergens together on the whole menu
\* leave item 3 alone; each flag by itself keeps more.
C17_Witness ==
    /\ EffectRan
    /\ currentCategory = JStr("all")
    /\ { k \in FilterKeys : activeFilters[k] = JTrue } = {"vegetarian", "halal", "noAllergens"}
    /\ filteredItems.items = <<3>>

\* The flags other than noCheese that are true are satisfied by the item.
SatisfiesTheOtherFlags(item) ==
    \A k \in FilterKeys \ {"noCheese"} : activeFilters[k] = JTrue => Satisfies(k, item)

InList(id) == \E i \in DOMAIN filteredItems.items : filteredItems.items[i] = id

\* C18: with noCheese true, an item (that the other flags keep) is listed if
\* and only if its allergens have no 'lait' or its cheeseRemovable is true.
C18_NoCheeseKeepsRemovable ==
    (EffectRan /\ PlainCategory /\ activeFilters["noCheese"] = JTrue)
        => \A i \in DOMAIN CatalogItems(currentCategory) :
               LET item == CatalogItems(currentCategory)[i]
               IN SatisfiesTheOtherFlags(item)
                      => (InList(item.id) <=>
                             (("lait" \notin item.allergens) \/ item.cheeseRemovable = JTrue))

\* C18 witness: noCheese alone on the whole menu lists item 1 (lait,
\* cheeseRemovable true) and item 3 (no lait), not item 2 (lait, cheeseRemovable
\* absent) nor item 4 (lait, cheeseRemovable false).
C18_Witness ==
    /\ EffectRan
    /\ currentCategory = JStr("all")
    /\ { k \in FilterKeys : activeFilters[k] = JTrue } = {"noCheese"}
    /\ filteredItems.items = <<1, 3>>

----------------------------------------------------------------------------
(* Properties of a turn, end to end (Spec).                                *)

VegetarianOnly == Obj({ <<"setFilters", Obj({ <<"vegetarian", JTrue>> })>> })

VegetarianTurnApplied ==
    last.ev = "merge" /\ last.undisturbed /\ last.actions = VegetarianOnly

\* C19 as stated: after a turn whose action is only filters {vegetarian: true}
\* the visible list is the vegetarian items of the whole catalog (items 1 and
\* 3), whatever the category was before.
C19_VegetarianOfWholeCatalog ==
    VegetarianTurnApplied => filteredItems = [array |-> TRUE, items |-> <<1, 3>>]

\* The vegetarian items of a category, read off the catalog.
VegetarianIds(cat) ==
    CASE cat = JStr("all") -> <<1, 3>>
      [] cat = JStr("pizzas") -> <<1>>
      [] cat = JStr("pates") -> <<3>>

\* C19: after a turn whose action is only filters {vegetarian: true}, the
\* category is the one selected before the turn ('all' or a catalog key) and
\* the visible list is the vegetarian items of that category, whatever the
\* filters were before.
C19_VegetarianOfCurrentCategory ==
    (VegetarianTurnApplied /\ last.before.category.v \in MenuKeys \cup {"all"})
        => /\ currentCategory = last.before.category
           /\ filteredItems = [array |-> TRUE, items |-> VegetarianIds(last.before.category)]

\* C19 witness: the turn was applied while the category was pates; item 3 is
\* listed, item 1 is not.
C19_Witness ==
    /\ VegetarianTurnApplied
    /\ last.before.category = JStr("pates")
    /\ filteredItems.items = <<3>>

\* C20: never more than one language-model request in flight, and the
\* thinking indicator is true exactly while one is.
C20_OneRequestInFlight ==
    /\ Cardinality(inflight) <= 1
    /\ isThinking <=> (inflight # {})

----------------------------------------------------------------------------
(* Properties of overlapping turns and of the direct controls (Spec).      *)

\* C21: the application of an action never overlaps that of another: when an
\* action has just been applied, the only deferred merge that can be pending is
\* its own.
C21_NoOverlappingReconciliations ==
    last.ev = "actions" => Len(timers) <= (IF SchedulesMerge(last.actions) THEN 1 ELSE 0)

IsPrefix(s, t) == Len(s) <= Len(t) /\ SubSeq(t, 1, Len(s)) = s

\* C22: the history is append-only: every step that changes it keeps the
\* previous history as a prefix and adds one user entry and one assistant
\* entry.
C22_HistoryAppendOnly ==
    [][conversationHistory' # conversationHistory
          => /\ IsPrefix(conversationHistory, conversationHistory')
             /\ Len(conversationHistory') = Len(conversationHistory) + 2
             /\ conversationHistory'[Len(conversationHistory) + 1].role = "user"
             /\ conversationHistory'[Len(conversationHistory) + 2].role = "assistant"]_vars

\* An action with a category and filters, without the withCheese special case.
CategoryAndFilters(actions) ==
    /\ Truthy(Get(actions, "filterCategory"))
    /\ Truthy(Get(actions, "setFilters"))
    /\ ~WithCheese(actions)

\* C24: every evaluation of the visible list that sees the filters of an
\* action with a category and filters (the one that follows its deferred
\* merge) also sees that action's category.
C24_CategoryLandsBeforeFilters ==
    (last.ev = "merge" /\ CategoryAndFilters(last.actions))
        => currentCategory = Get(last.actions, "filterCategory")

\* C25: every entry of the history has role user or assistant and a text that
\* is a string.
C25_HistoryEntriesWellFormed ==
    \A i \in DOMAIN conversationHistory :
        /\ conversationHistory[i].role \in {"user", "assistant"}
        /\ IsString(conversationHistory[i].content)

Recording == { r \in DOMAIN recorders : recorders[r] = "recording" }

\* C26: at most one recorder is recording, and it is the one stopRecording
\* would stop (the one in mediaRecorderRef).
C26_OneRecordingAtATime ==
    /\ Cardinality(Recording) <= 1
    /\ \A r \in Recording : mediaRecorderRef = r

\* C27: isRecording and isProcessing are never both true.
C27_RecordingExcludesProcessing == ~(voiceState.isRecording /\ voiceState.isProcessing)

\* C30: a click on the filter button k negates flag k (for a boolean flag, a
\* second toggle restores the FilterSet) and leaves the other flags, the
\* category and the history unchanged; a click on a category button sets the
\* category and leaves every flag unchanged.
C30_DirectControlsFrame ==
    [][/\ \A k \in FilterKeys :
              toggleFilter(k) =>
                  /\ activeFilters'[k] = JBool(~Truthy(activeFilters[k]))
                  /\ \A j \in DOMAIN activeFilters \ {k} : activeFilters'[j] = activeFilters[j]
                  /\ DOMAIN activeFilters' = DOMAIN activeFilters
                  /\ currentCategory' = currentCategory
                  /\ conversationHistory' = conversationHistory
                  /\ IsBoolean(activeFilters[k])
                         => ToggledFilters(activeFilters', k) = activeFilters
       /\ \A key \in MenuKeys \cup {"all"} :
              SelectCategory(key) =>
                  /\ currentCategory' = JStr(key)
                  /\ activeFilters' = activeFilters
                  /\ conversationHistory' = conversationHistory]_vars

\* C30 witness: a toggle of vegan turned it on beside popular, which an action
\* had set, in the category pizzas.
C30_Witness ==
    /\ last.ev = "click"
    /\ activeFilters["vegan"] = JTrue
    /\ activeFilters["popular"] = JTrue
    /\ currentCategory = JStr("pizzas")

----------------------------------------------------------------------------
(* Termination of the processing phase (LiveSpec).                         *)

\* C28: whenever isProcessing is true it eventually becomes false (unless the
\* page has been unmounted meanwhile), and when it becomes false a transcript
\* or an error is set.
C28_ProcessingEnds ==
    /\ voiceState.isProcessing ~> (~voiceState.isProcessing \/ ~Mounted)
    /\ [][(voiceState.isProcessing /\ ~voiceState'.isProcessing)
             => (Truthy(voiceState'.transcript) \/ Truthy(voiceState'.error))]_vars

\* C28 witness: a recording has been transcribed: its recorder is done, the
\* processing flag is off and the transcript is set.
C28_Witness ==
    /\ \E r \in DOMAIN recorders : recorders[r] = "done"
    /\ ~voiceState.isProcessing
    /\ Truthy(voiceState.transcript)

----------------------------------------------------------------------------
(* Properties of the transcribe endpoint (TranscribeSpec).                 *)

Responded == transcribe.phase = "responded"

\* The hook has run its continuation on the answer.
AnswerSeen == Responded /\ recorders[1] = "done"

\* The error the hook shows when the transcription service was not reached.
TransportHookError == JStr("Erreur lors de la transcription audio")

\* C23: an empty or blank transcription is answered as 'no speech detected',
\* with a status and an error other than those of a failure to reach the
\* service, and the error state of the hook differs too.
C23_NoSpeechIsDistinct ==
    /\ (Responded /\ transcribe.cause = "noSpeech")
           => transcribe.answer = Answer(400, "Aucun texte detecte")
    /\ (Responded /\ transcribe.cause = "transport")
           => /\ transcribe.answer.status # 400
              /\ transcribe.answer.error # "Aucun texte detecte"
    /\ (AnswerSeen /\ transcribe.cause = "transport")
           => voiceState.error = TransportHookError
    /\ (AnswerSeen /\ transcribe.cause = "noSpeech")
           => voiceState.error # TransportHookError

\* C29: once the handler has answered a request whose audio file was stored,
\* the temporary file is gone.
C29_TempFileRemoved == (Responded /\ transcribe.stored) => ~transcribe.tempFile

====
